---- MODULE Spec2Model ----
(***************************************************************************)
(* Model of src/js/main.js: an MVC page that fetches a JSON document and   *)
(* renders it through a list of views.                                     *)
(*                                                                         *)
(*   EducationHistoryModel  getData / bindGetDataCallback                  *)
(*   HtmlView               initLoadingData / emit / table helpers         *)
(*   ConsoleView            initLoadingData / emit / Markdown helpers      *)
(*   Controller             constructor / process / dataFetchCallback      *)
(*                                                                         *)
(* The host runs one task at a time to completion.  Every action below is  *)
(* one task: a click, the settling of the network request, the firing of   *)
(* the delay timer, the settling of response.json(), the resumption of     *)
(* dataFetchCallback after its await, the settling of a suspended emit.    *)
(***************************************************************************)
EXTENDS Integers, Sequences, FiniteSets, Bags, TLC

VARIABLES
    views,            \* Controller.views: the registered views, by class
    getDataCallback,  \* EducationHistoryModel.getDataCallback
    history,          \* EducationHistoryModel.history
    display,          \* style.display of the three toggled elements
    doc,              \* the texts the HtmlView writes into the document
    console,          \* what console.log / console.error received, and how often
    cycles,           \* one record per call of Controller.process
    now,              \* the clock read by new Date()
    unhandled         \* rejected emit promises nobody handles: <<cycle, view>>

vars == <<views, getDataCallback, history, display, doc, console, cycles, now,
          unhandled>>

-----------------------------------------------------------------------------
(* Bounds of the model *)

\* how many times the load button is clicked
MaxCycles == 2
\* how many views the Controller is given besides the two of the page
MaxExtraViews == 1
\* how many headers, and records, a dataset given to ConsoleView.emit has
MaxCols == 2
MaxRows == 2

(* Program constants *)
SIMULATE_DATA_DELAY_MS == 1500

-----------------------------------------------------------------------------
(* Strings *)

RECURSIVE Join(_, _)
\* Array.prototype.join
Join(parts, sep) ==
    IF Len(parts) = 0 THEN ""
    ELSE IF Len(parts) = 1 THEN parts[1]
    ELSE parts[1] \o sep \o Join(Tail(parts), sep)

RECURSIVE Repeat(_, _)
\* String.prototype.repeat
Repeat(s, n) == IF n <= 0 THEN "" ELSE s \o Repeat(s, n - 1)

\* the decimal digits of ms / 1000 as a template literal prints them
FormatSeconds(ms) ==
    LET whole == ms \div 1000
        frac  == ms % 1000
        digits == IF frac % 100 = 0 THEN ToString(frac \div 100)
                  ELSE IF frac % 10 = 0 THEN
                       (IF frac < 100 THEN "0" ELSE "") \o ToString(frac \div 10)
                  ELSE (IF frac < 10 THEN "00" ELSE IF frac < 100 THEN "0" ELSE "")
                       \o ToString(frac)
    IN  IF frac = 0 THEN ToString(whole) ELSE ToString(whole) \o "." \o digits

-----------------------------------------------------------------------------
(* JSON values.  An object is a record; a record of the dataset's data is  *)
(* a sequence of <<key, value>> pairs in the order of the JSON text.       *)

\* the array index a property key denotes, -1 when it is not one
ArrayIndex(k) ==
    CASE k = "0" -> 0 [] k = "1" -> 1 [] k = "2" -> 2 [] k = "3" -> 3
      [] OTHER -> -1

RECURSIVE SortedIndexPairs(_, _)
SortedIndexPairs(rec, from) ==
    IF from > 3 THEN << >>
    ELSE LET hit == SelectSeq(rec, LAMBDA p : ArrayIndex(p[1]) = from)
         IN  hit \o SortedIndexPairs(rec, from + 1)

\* Object.values: integer keys ascending, then the other keys as inserted
ObjectValues(rec) ==
    LET ordered == SortedIndexPairs(rec, 0)
                   \o SelectSeq(rec, LAMBDA p : ArrayIndex(p[1]) = -1)
    IN  [i \in 1..Len(ordered) |-> ordered[i][2]]

Has(obj, field) == field \in DOMAIN obj

-----------------------------------------------------------------------------
(* HtmlView: table helpers *)

wrapWithElement(el, inner) == "<" \o el \o ">" \o inner \o "</" \o el \o ">"

convertToTableHeaders(headers) ==
    wrapWithElement("tr",
        Join([i \in 1..Len(headers) |-> wrapWithElement("th", headers[i])], ""))

convertToTableRow(record) ==
    LET values == ObjectValues(record)
    IN  wrapWithElement("tr",
            Join([i \in 1..Len(values) |-> wrapWithElement("td", values[i])], ""))

convertToTableRows(datarows) ==
    Join([i \in 1..Len(datarows) |-> convertToTableRow(datarows[i])], "")

(* ConsoleView: Markdown helpers *)

markdownTableHeader(headers) ==
    << "| " \o Join(headers, " | ") \o " |",
       "| " \o Join([i \in 1..Len(headers) |-> Repeat("-", Len(headers[i]))],
                    " | ") \o " |" >>

createMarkdownTable(data) ==
    Join(markdownTableHeader(data.headers)
           \o << Join([i \in 1..Len(data.data) |->
                          "| " \o Join(ObjectValues(data.data[i]), " | ") \o " |"],
                       "\n") >>,
         "\n")

-----------------------------------------------------------------------------
(* The views *)

\* the classes a registered view can be an instance of: the two of the
\* page, a view whose emit is a plain function that throws, and a view
\* whose async emit suspends at an await before it finishes
ViewKinds == {"HtmlView", "ConsoleView", "ThrowingView", "SlowView"}

ElementIds == {"loadingIcon", "loadTableButton", "mutedLoadingText"}

ViewIds == 1..Len(views)

hideElement(d, elementId) == [d EXCEPT ![elementId] = "none"]

showElement(d, elementId, showMode) == [d EXCEPT ![elementId] = showMode]

LogEntry(level, text) == [level |-> level, text |-> text]

\* console.log / console.error: one more entry e in the console con
Write(con, e) == con (+) SetToBag({e})

\* the loading icon is left as it is; only the caveat text is shown
HtmlViewInitLoadingDataNoIcon(w) ==
    [w EXCEPT !.display = showElement(@, "mutedLoadingText", "block")]

\* HtmlView.initLoadingData on the document and console w
HtmlViewInitLoadingData(w) ==
    LET shown == showElement(w.display, "loadingIcon", "block")
    IN  IF SIMULATE_DATA_DELAY_MS > 0
        THEN [w EXCEPT
                !.display = showElement(shown, "mutedLoadingText", "block"),
                !.doc.mutedLoadingText =
                    "This has a simulated data load delay of "
                    \o FormatSeconds(SIMULATE_DATA_DELAY_MS) \o " second(s)."]
        ELSE [w EXCEPT !.display = shown]

\* ConsoleView.initLoadingData
ConsoleViewInitLoadingData(w) ==
    [w EXCEPT !.console = Write(@, LogEntry("log", "loading..."))]

initLoadingData(kind, w) ==
    CASE kind = "HtmlView"    -> HtmlViewInitLoadingData(w)
      [] kind = "ConsoleView" -> ConsoleViewInitLoadingData(w)
      [] OTHER                -> w

\* what a template literal prints for a property that may be missing
Text(obj, field) == IF Has(obj, field) THEN obj[field] ELSE "undefined"

\* the load button is left displayed
HtmlViewEmitKeepsButton(w, data) ==
    [w |-> [w EXCEPT !.display = hideElement(hideElement(@,
                        "loadingIcon"), "mutedLoadingText"),
                     !.doc.caption = Text(data, "title")],
     result |-> IF Has(data, "headers") /\ Has(data, "data")
                THEN "fulfilled" ELSE "rejected"]

\* HtmlView.emit: an async function without an await, so its body runs
\* inside the call; a TypeError in it rejects the promise it returns
HtmlViewEmit(w, data) ==
    LET hidden == hideElement(hideElement(hideElement(w.display,
                      "loadingIcon"), "loadTableButton"), "mutedLoadingText")
        w1 == [w EXCEPT !.display = hidden, !.doc.caption = Text(data, "title")]
    IN  IF ~Has(data, "headers") THEN [w |-> w1, result |-> "rejected"]
        ELSE LET w2 == [w1 EXCEPT !.doc.thead = convertToTableHeaders(data.headers)]
             IN  IF ~Has(data, "data") THEN [w |-> w2, result |-> "rejected"]
                 ELSE [w |-> [w2 EXCEPT
                                !.doc.tbody = convertToTableRows(data.data),
                                !.doc.tableDataTS =
                                    "Data generated at " \o Text(data, "lastRequest"),
                                !.doc.fade = ~@],
                       result |-> "fulfilled"]

\* ConsoleView.emit
ConsoleViewEmit(w, data) ==
    IF ~Has(data, "headers") \/ ~Has(data, "data")
    THEN [w |-> w, result |-> "rejected"]
    ELSE [w |-> [w EXCEPT !.console = Write(@, LogEntry("log",
                    Text(data, "title") \o " (Markdown)\n\n"
                    \o createMarkdownTable(data) \o "\n"))],
          result |-> "fulfilled"]

\* v.emit(data): how the call ends for the caller
Emit(kind, w, data) ==
    CASE kind = "HtmlView"     -> HtmlViewEmit(w, data)
      [] kind = "ConsoleView"  -> ConsoleViewEmit(w, data)
      [] kind = "ThrowingView" -> [w |-> w, result |-> "threw"]
      [] OTHER                 -> [w |-> w, result |-> "pending"]

-----------------------------------------------------------------------------
(* Controller *)

RECURSIVE EmitFrom(_, _, _)
\* the body of this.views.map(v => { try { v.emit(data) } catch ... }),
\* from view i on; r carries the document, the result of every call made
\* and the views whose failure the catch block logged
EmitFrom(r, data, i) ==
    IF i > Len(views) THEN r
    ELSE LET e == Emit(views[i], r.w, data)
         IN  IF e.result = "threw"
             THEN EmitFrom([w |-> [e.w EXCEPT !.console = Write(@,
                                      LogEntry("error", "An error has occurred"))],
                            results |-> Append(r.results, "threw"),
                            caught |-> r.caught \cup {i}], data, i + 1)
             ELSE EmitFrom([w |-> e.w,
                            results |-> Append(r.results, e.result),
                            caught |-> r.caught], data, i + 1)

RECURSIVE EmitFromNoTry(_, _, _)
\* the same loop without the try/catch: the first throw ends it
EmitFromNoTry(r, data, i) ==
    IF i > Len(views) THEN r
    ELSE LET e == Emit(views[i], r.w, data)
         IN  IF e.result = "threw"
             THEN [w |-> e.w, results |-> Append(r.results, "threw"),
                   caught |-> r.caught]
             ELSE EmitFromNoTry([w |-> e.w,
                                 results |-> Append(r.results, e.result),
                                 caught |-> r.caught], data, i + 1)

EmitStart(w) == [w |-> w, results |-> << >>, caught |-> {}]

dataFetchCallbackNoTry(w, data) == EmitFromNoTry(EmitStart(w), data, 1)

\* Controller.dataFetchCallback up to its await
dataFetchCallback(w, data) == EmitFrom(EmitStart(w), data, 1)

RECURSIVE InitFrom(_, _, _)
\* this.views.forEach(v => v.initLoadingData()), up to view n
InitFrom(w, i, n) ==
    IF i > n THEN w ELSE InitFrom(initLoadingData(views[i], w), i + 1, n)

InFlight(c) == c.stage \in {"fetching", "delaying", "parsing"}

\* a fresh load cycle: the promise chain of getData, and what was observed
NewCycle(reached) ==
    [stage     |-> "fetching",
     failure   |-> "none",
     parsed    |-> "none",
     inits     |-> [i \in ViewIds |-> IF i <= reached THEN 1 ELSE 0],
     emitCalls |-> [i \in ViewIds |-> 0],
     results   |-> [i \in ViewIds |-> "none"],
     caught    |-> {},
     callbacks |-> << >>,
     delivered |-> << >>,
     errors    |-> 0,
     overlaps  |-> {k \in 1..Len(cycles) : InFlight(cycles[k])}]

\* a new request that aborts the requests still in flight
getDataCancelling(cs, reached) ==
    Append([k \in 1..Len(cs) |->
               IF InFlight(cs[k])
               THEN [cs[k] EXCEPT !.stage = "failed", !.failure = "network"]
               ELSE cs[k]],
           NewCycle(reached))

\* EducationHistoryModel.getData, the call: one more promise chain, started
\* with fetch(JSON_DATA_URL), beside those of the earlier calls
getData(cs, reached) == Append(cs, NewCycle(reached))

\* only the first view is put in the loading state
processFirstOnly(w) == [w |-> InitFrom(w, 1, 1), reached |-> 1]

\* Controller.process up to the call of getData
process(w) == [w |-> InitFrom(w, 1, Len(views)), reached |-> Len(views)]

-----------------------------------------------------------------------------
(* EducationHistoryModel *)

\* the JSON documents with an object at the top: the dataset of the page,
\* and an object that lacks the fields the views read
GoodBody ==
    [title   |-> "Edu",
     headers |-> <<"School", "Year">>,
     data    |-> << << <<"School", "BU">>, <<"Year", "2020">> >> >>]

NoHeadersBody == [title |-> "Edu"]

ObjectBodies == {GoodBody, NoHeadersBody}

\* what response.json() can resolve to: an object, or null / a primitive
ParsedValues ==
    {[kind |-> "object", obj |-> b] : b \in ObjectBodies}
        \cup {[kind |-> "primitive", obj |-> << >>]}

\* new Date().toLocaleTimeString()
toLocaleTimeString(t) == ToString(t) \o ":00:00 PM"

\* the parsed object without the stamp
StampMissing(data, t) == data

\* this.history.lastRequest = new Date().toLocaleTimeString()
Stamp(data, t) ==
    [f \in DOMAIN data \cup {"lastRequest"} |->
        IF f = "lastRequest" THEN toLocaleTimeString(t) ELSE data[f]]

\* the error is swallowed without a trace
catchErrorSilent(con, error) == con

\* .catch((error) => console.error('Error: ', error))
catchError(con, error) == Write(con, LogEntry("error", "Error: " \o error))

-----------------------------------------------------------------------------
(* The state after `new Controller(new EducationHistoryModel(), views)` *)

World == [display |-> display, doc |-> doc, console |-> console]

Kinds(vs) == {vs[i] : i \in 1..Len(vs)}

\* the views of the page, in the order the entry point registers them
PageViews == <<"HtmlView", "ConsoleView">>

Position(vs, kind) == CHOOSE i \in 1..Len(vs) : vs[i] = kind

\* the view lists the Controller is constructed with: the page's two views
\* in their order, and at most n other views at any position among them
ViewLists(n) ==
    {vs \in UNION {[1..k -> ViewKinds] : k \in Len(PageViews)..(Len(PageViews) + n)} :
        /\ Cardinality(Kinds(vs)) = Len(vs)
        /\ Kinds(PageViews) \subseteq Kinds(vs)
        /\ Position(vs, PageViews[1]) < Position(vs, PageViews[2])}

\* ConsoleView.bindLoadTableEventListener logs; HtmlView's adds the listener
BindLog(vs) ==
    IF "ConsoleView" \in Kinds(vs)
    THEN SetToBag({LogEntry("log", "binding () => this.process() to nothing")})
    ELSE EmptyBag

Init ==
    /\ views \in ViewLists(MaxExtraViews)
    /\ getDataCallback = "dataFetchCallback"
    /\ history = << >>
    /\ display = [e \in ElementIds |-> ""]
    /\ doc = [caption |-> "", thead |-> "", tbody |-> "", tableDataTS |-> "",
              mutedLoadingText |-> "", fade |-> FALSE]
    /\ console = BindLog(views)
    /\ cycles = << >>
    /\ now = 0
    /\ unhandled = {}

-----------------------------------------------------------------------------
(* Tasks *)

\* dataFetchCallback resumes after its await before any other task runs
NoMicrotask == \A c \in 1..Len(cycles) : cycles[c].stage # "rendering"

\* the click listener HtmlView.bindLoadTableEventListener added runs
\* Controller.process; a control that is not displayed cannot be clicked
ClickLoadButton ==
    /\ NoMicrotask
    /\ "HtmlView" \in Kinds(views)
    /\ display["loadTableButton"] # "none"
    /\ Len(cycles) < MaxCycles
    /\ LET p == process(World)
       IN  /\ display' = p.w.display
           /\ doc' = p.w.doc
           /\ console' = p.w.console
           /\ cycles' = getData(cycles, p.reached)
    /\ UNCHANGED <<views, getDataCallback, history, now, unhandled>>

\* fetch(JSON_DATA_URL) rejects: the chain skips to its catch
FetchRejects == \E c \in 1..Len(cycles) :
    /\ NoMicrotask
    /\ cycles[c].stage = "fetching"
    /\ console' = catchError(console, "TypeError: Failed to fetch")
    /\ cycles' = [cycles EXCEPT ![c].stage = "failed", ![c].failure = "network",
                     ![c].errors = IF console' # console THEN @ + 1 ELSE @]
    /\ UNCHANGED <<views, getDataCallback, history, display, doc, now, unhandled>>

\* fetch resolves with a response: the delay timer is started
FetchResolves == \E c \in 1..Len(cycles) :
    /\ NoMicrotask
    /\ cycles[c].stage = "fetching"
    /\ cycles' = [cycles EXCEPT ![c].stage = "delaying"]
    /\ UNCHANGED <<views, getDataCallback, history, display, doc, console, now,
                   unhandled>>

\* the timer fires: the response is passed on and response.json() starts
TimerFires == \E c \in 1..Len(cycles) :
    /\ NoMicrotask
    /\ cycles[c].stage = "delaying"
    /\ console' = Write(console, LogEntry("log", "Data retrieval successful."))
    /\ cycles' = [cycles EXCEPT ![c].stage = "parsing"]
    /\ UNCHANGED <<views, getDataCallback, history, display, doc, now, unhandled>>

\* the body is no JSON: response.json() rejects
JsonRejects == \E c \in 1..Len(cycles) :
    /\ NoMicrotask
    /\ cycles[c].stage = "parsing"
    /\ console' = catchError(console, "SyntaxError: Unexpected token")
    /\ cycles' = [cycles EXCEPT ![c].stage = "failed", ![c].failure = "parse",
                     ![c].errors = IF console' # console THEN @ + 1 ELSE @]
    /\ UNCHANGED <<views, getDataCallback, history, display, doc, now, unhandled>>

\* response.json() resolves with p: the result is stamped with the time
\* and handed to the registered callback, which runs every emit up to its
\* own await
JsonResolves == \E c \in 1..Len(cycles), p \in ParsedValues :
    /\ NoMicrotask
    /\ cycles[c].stage = "parsing"
    /\ now' = now + 1
    /\ IF p.kind = "primitive"
       THEN \* strict mode: a property of null or of a primitive cannot be set
            /\ history' = p.obj
            /\ console' = catchError(console, "TypeError: Cannot create property")
            /\ cycles' = [cycles EXCEPT ![c].stage = "failed",
                             ![c].failure = "stamp", ![c].parsed = p.kind,
                             ![c].errors = IF console' # console THEN @ + 1 ELSE @]
            /\ UNCHANGED <<display, doc, unhandled>>
       ELSE LET stamped == Stamp(p.obj, now')
                r == dataFetchCallback(World, stamped)
                n == Len(r.results)
            IN  /\ history' = stamped
                /\ display' = r.w.display
                /\ doc' = r.w.doc
                /\ console' = r.w.console
                /\ unhandled' = unhandled \cup
                      {<<c, i>> : i \in {j \in 1..n : r.results[j] = "rejected"}}
                /\ cycles' = [cycles EXCEPT
                      ![c].stage = "rendering",
                      ![c].parsed = p.kind,
                      ![c].callbacks = Append(@, getDataCallback),
                      ![c].delivered = Append(@, stamped),
                      ![c].emitCalls = [i \in ViewIds |-> IF i <= n THEN 1 ELSE 0],
                      ![c].results =
                          [i \in ViewIds |-> IF i <= n THEN r.results[i] ELSE "none"],
                      ![c].caught = r.caught]
    /\ UNCHANGED <<views, getDataCallback>>

\* Promise.all of the values the map returned has resolved: the promise of
\* dataFetchCallback resolves
CallbackResumes == \E c \in 1..Len(cycles) :
    /\ cycles[c].stage = "rendering"
    /\ cycles' = [cycles EXCEPT ![c].stage = "complete"]
    /\ UNCHANGED <<views, getDataCallback, history, display, doc, console, now,
                   unhandled>>

\* an emit suspended at its await finishes, or fails
EmitSettles == \E c \in 1..Len(cycles), i \in ViewIds, ok \in BOOLEAN :
    /\ NoMicrotask
    /\ cycles[c].results[i] = "pending"
    /\ cycles' = [cycles EXCEPT
                     ![c].results[i] = IF ok THEN "fulfilled" ELSE "rejected"]
    /\ unhandled' = IF ok THEN unhandled ELSE unhandled \cup {<<c, i>>}
    /\ UNCHANGED <<views, getDataCallback, history, display, doc, console, now>>

Next ==
    \/ ClickLoadButton
    \/ FetchRejects
    \/ FetchResolves
    \/ TimerFires
    \/ JsonRejects
    \/ JsonResolves
    \/ CallbackResumes
    \/ EmitSettles

Spec == Init /\ [][Next]_vars

-----------------------------------------------------------------------------
(* ConsoleView.emit on its own, for every dataset within the bounds *)

HeaderTexts == {"A", "BB"}
Keys == {"k", "0", "1"}
CellTexts == {"x", "yz"}

SeqsUpTo(S, n) == UNION {[1..k -> S] : k \in 0..n}

\* records of n fields with distinct keys
Records(n) ==
    {r \in [1..n -> Keys \X CellTexts] :
        \A i, j \in 1..n : i # j => r[i][1] # r[j][1]}

\* datasets as getData hands them to the views: at most cols headers, rows
\* records, and in every record one field for each header
Datasets(cols, rows) ==
    UNION {{[title |-> "Edu", headers |-> h, data |-> d, lastRequest |-> "12:00:00 PM"] :
              d \in SeqsUpTo(Records(Len(h)), rows)} :
           h \in SeqsUpTo(HeaderTexts, cols)}

InitMd ==
    /\ views = PageViews
    /\ getDataCallback = "dataFetchCallback"
    /\ history \in Datasets(MaxCols, MaxRows)
    /\ display = [e \in ElementIds |-> ""]
    /\ doc = [caption |-> "", thead |-> "", tbody |-> "", tableDataTS |-> "",
              mutedLoadingText |-> "", fade |-> FALSE]
    /\ console = EmptyBag
    /\ cycles = << >>
    /\ now = 0
    /\ unhandled = {}

\* ConsoleView.emit(history)
ConsoleEmit ==
    /\ console = EmptyBag
    /\ console' = ConsoleViewEmit(World, history).w.console
    /\ UNCHANGED <<views, getDataCallback, history, display, doc, cycles, now,
                   unhandled>>

NextMd == ConsoleEmit

SpecMd == InitMd /\ [][NextMd]_vars

-----------------------------------------------------------------------------
(* Properties *)

Cycles == 1..Len(cycles)

Delivered(c) == cycles[c].stage \in {"rendering", "complete"}

AllViews(c, field, n) == \A i \in ViewIds : cycles[c][field][i] = n

InitialDoc ==
    /\ doc.caption = "" /\ doc.thead = "" /\ doc.tbody = ""
    /\ doc.tableDataTS = "" /\ doc.fade = FALSE

HtmlEmitted ==
    \E c \in Cycles : cycles[c].emitCalls[Position(views, "HtmlView")] >= 1

\* C1: every call of process has run initLoadingData once on every view
\* before its fetch settles; no emit runs while the fetch is in flight; and
\* once the fetch has delivered an object every view's emit has been called
\* exactly once for that call of process, overlapping calls included.
C1_InitBeforeFetchRenderAfter ==
    \A c \in Cycles :
        /\ AllViews(c, "inits", 1)
        /\ InFlight(cycles[c]) => AllViews(c, "emitCalls", 0)
        /\ cycles[c].parsed = "object" => Delivered(c) /\ AllViews(c, "emitCalls", 1)
        /\ Delivered(c) => AllViews(c, "emitCalls", 1)

\* C1 witness: two overlapping cycles, both delivered, each view emitted
\* once for each.
C1_Witness ==
    \E c, k \in Cycles :
        /\ k \in cycles[c].overlaps
        /\ Delivered(c) /\ Delivered(k)
        /\ AllViews(c, "emitCalls", 1) /\ AllViews(k, "emitCalls", 1)
        /\ AllViews(c, "inits", 1)

\* C2: a cycle whose fetch is rejected by the network, or whose body does
\* not parse as JSON, logs the failure once, invokes no callback and calls
\* no view's emit.
C2_FetchFailureLoggedNoRender ==
    \A c \in Cycles :
        cycles[c].failure \in {"network", "parse"} =>
            /\ cycles[c].errors = 1
            /\ \E e \in BagToSet(console) : e.level = "error"
            /\ cycles[c].callbacks = << >>
            /\ cycles[c].delivered = << >>
            /\ AllViews(c, "emitCalls", 0)

\* C2 witness: one cycle failed in the network and another while parsing.
C2_Witness ==
    \E c, k \in Cycles :
        /\ cycles[c].failure = "network" /\ cycles[k].failure = "parse"
        /\ cycles[c].errors = 1 /\ cycles[k].errors = 1

\* C3: when a view's emit fails (it throws, or its promise rejects), emit
\* has still been called once on every other registered view, before and
\* after the failing one in the list.
C3_EmitFailureDoesNotStopSiblings ==
    \A c \in Cycles : \A i \in ViewIds :
        cycles[c].results[i] \in {"threw", "rejected"} =>
            \A j \in ViewIds \ {i} : cycles[c].emitCalls[j] = 1

\* C3 witness: the first view of the list threw and the views after it were
\* emitted.
C3_Witness ==
    \E c \in Cycles :
        /\ Len(views) > 1
        /\ cycles[c].results[1] = "threw"
        /\ \A j \in ViewIds \ {1} : cycles[c].emitCalls[j] = 1

\* C4: every failure of a view's emit, one raised inside an async emit
\* included, is caught and logged by the Controller, and none is left as an
\* unhandled rejection.
C4_EveryEmitFailureCaughtAndLogged ==
    /\ \A c \in Cycles : \A i \in ViewIds :
          cycles[c].results[i] \in {"threw", "rejected"} => i \in cycles[c].caught
    /\ unhandled = {}

\* C5: a fetch that parsed to an object invokes the registered callback
\* exactly once, with the object stamped with lastRequest; no callback ever
\* receives a dataset without lastRequest, and none is invoked twice.
C5_StampedThenDeliveredOnce ==
    \A c \in Cycles :
        /\ Len(cycles[c].callbacks) <= 1
        /\ Len(cycles[c].delivered) = Len(cycles[c].callbacks)
        /\ cycles[c].parsed = "object" =>
              /\ cycles[c].callbacks = <<getDataCallback>>
              /\ Len(cycles[c].delivered) = 1
        /\ \A k \in 1..Len(cycles[c].delivered) :
              Has(cycles[c].delivered[k], "lastRequest")

\* C5 witness: a cycle has just handed its stamped dataset to the callback.
C5_Witness ==
    \E c \in Cycles :
        /\ cycles[c].stage = "rendering"
        /\ cycles[c].callbacks = <<"dataFetchCallback">>
        /\ cycles[c].delivered = <<history>>
        /\ history.lastRequest = toLocaleTimeString(now)

\* C6: dataFetchCallback has not completed while the emit of any registered
\* view is still pending.
C6_CompleteOnlyWhenEveryEmitSettled ==
    \A c \in Cycles :
        cycles[c].stage = "complete" =>
            \A i \in ViewIds : cycles[c].results[i] # "pending"

\* C7 as stated: once a cycle's fetch has failed the loading indicator is
\* visible in every later state and no view is updated for the cycle.
C7_LoadingIndicatorStuckForever ==
    \A c \in Cycles :
        cycles[c].failure \in {"network", "parse"} =>
            /\ display["loadingIcon"] = "block"
            /\ AllViews(c, "emitCalls", 0)

\* C7 amended: a failed cycle never updates a view, and the loading
\* indicator and the caveat stay visible, the document untouched, for as
\* long as no other cycle has been delivered to the views.
C7_LoadingIndicatorStuckUntilAnotherRender ==
    \A c \in Cycles :
        cycles[c].failure \in {"network", "parse"} =>
            /\ AllViews(c, "emitCalls", 0)
            /\ (\A k \in Cycles : ~Delivered(k)) =>
                  /\ display["loadingIcon"] = "block"
                  /\ display["mutedLoadingText"] = "block"
                  /\ display["loadTableButton"] # "none"
                  /\ InitialDoc

\* C7 witness: a cycle failed, the button was clicked again, nothing has been
\* delivered, and the indicator is visible.
C7_Witness ==
    /\ Len(cycles) = 2
    /\ cycles[1].failure \in {"network", "parse"}
    /\ InFlight(cycles[2])
    /\ cycles[2].overlaps = {}
    /\ display["loadingIcon"] = "block"

C9_NotBlocked ==
    (NoMicrotask /\ display["loadTableButton"] # "none" /\ Len(cycles) < MaxCycles)
        => ENABLED ClickLoadButton

C9_EachSuccessRenders ==
    \A c \in Cycles :
        Delivered(c) => Len(cycles[c].delivered) = 1 /\ AllViews(c, "emitCalls", 1)

C9_TriggerStep ==
    Len(cycles') > Len(cycles) =>
        /\ Len(cycles') = Len(cycles) + 1
        /\ \A c \in Cycles : cycles'[c] = cycles[c]
        /\ cycles'[Len(cycles')].stage = "fetching"
        /\ \A i \in ViewIds : cycles'[Len(cycles')].inits[i] = 1
        /\ cycles'[Len(cycles')].overlaps = {c \in Cycles : InFlight(cycles[c])}

C9_NoCancelStep ==
    \A c \in Cycles :
        cycles'[c] # cycles[c] =>
            \A k \in Cycles \ {c} : cycles'[k] = cycles[k]

\* C9: a click while earlier fetches are in flight is not blocked; it puts
\* every view in the loading state and starts one more fetch, leaving the
\* fetches in flight as they are; a step of one cycle changes no other
\* cycle; and every cycle that is delivered renders every view itself.
C9_RetriggerAddsIndependentFetch ==
    /\ [](C9_NotBlocked /\ C9_EachSuccessRenders)
    /\ [][C9_TriggerStep /\ C9_NoCancelStep]_vars

\* C9 witness: the second cycle was started while the first was in flight;
\* the first failed and the second rendered every view.
C9_Witness ==
    /\ Len(cycles) = 2
    /\ cycles[2].overlaps = {1}
    /\ cycles[1].stage = "failed"
    /\ Delivered(2) /\ AllViews(2, "emitCalls", 1)

C10_HiddenAfterEmit ==
    HtmlEmitted =>
        /\ display["loadTableButton"] = "none"
        /\ display["loadingIcon"] = "none"
        /\ ~ENABLED ClickLoadButton

C10_ButtonStaysHidden ==
    display["loadTableButton"] = "none" => display'["loadTableButton"] = "none"

C10_NoNewCycle == HtmlEmitted => Len(cycles') = Len(cycles)

\* C10: once HtmlView.emit has run the load button is hidden and no step
\* shows it again, so no cycle is started afterwards; later renders belong
\* to cycles started before, and the loading indicator stays hidden.
C10_NoLoadAfterFirstRender ==
    /\ []C10_HiddenAfterEmit
    /\ [][C10_ButtonStaysHidden /\ C10_NoNewCycle]_vars

\* C10 witness: two cycles rendered one after the other, the second one
\* started before the first render, and the indicator is hidden.
C10_Witness ==
    /\ Len(cycles) = 2
    /\ Delivered(1) /\ Delivered(2)
    /\ cycles[2].overlaps = {1}
    /\ cycles[1].delivered[1].lastRequest # cycles[2].delivered[1].lastRequest
    /\ display["loadingIcon"] = "none"
    /\ display["loadTableButton"] = "none"

(* The Markdown table *)

MarkdownLines(d) ==
    << "| " \o Join(d.headers, " | ") \o " |",
       "| " \o Join([i \in 1..Len(d.headers) |-> Repeat("-", Len(d.headers[i]))],
                    " | ") \o " |" >>
    \o [i \in 1..Len(d.data) |-> "| " \o Join(ObjectValues(d.data[i]), " | ") \o " |"]

\* C8: what ConsoleView.emit writes is the title and " (Markdown)", a
\* blank line, and the table: the header line, the separator line with a
\* run of dashes as long as each header, and one line for each record.
C8_MarkdownTableLines ==
    \A e \in BagToSet(console) :
        e.text = history.title \o " (Markdown)\n\n"
                 \o Join(MarkdownLines(history), "\n") \o "\n"

====
